---- MODULE Spec2Model ----
(***************************************************************************)
(* Model of the ext2 superblock reader of src/src/lib.rs: the record       *)
(* layout of Ext2SuperBlock, the superblock locator and decoder of         *)
(* Ext2Fs::read_superblock, the geometry computed by Ext2Fs::initialize    *)
(* and the accessors of the filesystem context.                            *)
(*                                                                         *)
(* The host is little-endian. Of the decoded record the model keeps the    *)
(* four fields the program reads (s_magic, s_log_block_size,               *)
(* s_blocks_count, s_blocks_per_group); the medium holds zero elsewhere.   *)
(* A panic of initialize unwinds to its caller, who may go on using the    *)
(* context. Integers of the model are TLC integers (below 2^31): the       *)
(* inputs are chosen so that every usize/u32 value that occurs fits, and   *)
(* ShlUsize drops the bits a usize shift loses without computing 2^64.     *)
(***************************************************************************)
EXTENDS Integers, Sequences, FiniteSets, TLC

(* ------------------------------------------------------------------ *)
(* Bounds of the model                                                 *)
(* ------------------------------------------------------------------ *)

\* Largest device block size tried by the locator specification.
MaxBlockSize == 4200

(* ------------------------------------------------------------------ *)
(* Program constants                                                   *)
(* ------------------------------------------------------------------ *)

DEFAULT_BLOCK_SIZE == 1024

SUPERBLOCK_OFFSET == 1024

EXT2_MAGIC == 61267

\* Width in bits of usize on the 64-bit hosts the crate is built for.
UsizeBits == 64

I32Min == (-2147483647) - 1

\* Option<T>: None is the empty tuple, Some(x) the tuple of x.
None == << >>

Some(x) == << x >>

IsSome(o) == Len(o) = 1

Unwrap(o) == o[1]

(* ------------------------------------------------------------------ *)
(* Ext2SuperBlock: #[repr(C)] layout                                   *)
(* ------------------------------------------------------------------ *)

\* Size (and alignment) in bytes of the primitive types the record uses.
\* A Rust char is a 4-byte Unicode scalar value, not a C char.
SizeOfPrim(ty) ==
    CASE ty = "u8"   -> 1
      [] ty = "u16"  -> 2
      [] ty = "u32"  -> 4
      [] ty = "i32"  -> 4
      [] ty = "char" -> 4

F(name, ty, n) == [name |-> name, ty |-> ty, n |-> n]

\* The fields of Ext2SuperBlock in declared order: name, element type, count.
Ext2SuperBlock ==
    << F("s_inodes_count", "u32", 1),
       F("s_blocks_count", "u32", 1),
       F("s_r_blocks_count", "u32", 1),
       F("s_free_blocks_count", "u32", 1),
       F("s_free_inodes_count", "u32", 1),
       F("s_first_data_block", "u32", 1),
       F("s_log_block_size", "i32", 1),
       F("s_log_frag_size", "u32", 1),
       F("s_blocks_per_group", "u32", 1),
       F("s_frags_per_group", "u32", 1),
       F("s_inodes_per_group", "u32", 1),
       F("s_mtime", "u32", 1),
       F("s_wtime", "u32", 1),
       F("s_mnt_count", "u16", 1),
       F("s_max_mnt_count", "u16", 1),
       F("s_magic", "u16", 1),
       F("s_state", "u16", 1),
       F("s_errors", "u16", 1),
       F("s_minor_rev_level", "u16", 1),
       F("s_lastcheck", "u32", 1),
       F("s_checkinterval", "u32", 1),
       F("s_creator_os", "u32", 1),
       F("s_rev_level", "u32", 1),
       F("s_def_resuid", "u16", 1),
       F("s_def_resgid", "u16", 1),
       F("s_first_ino", "u32", 1),
       F("s_inode_size", "u16", 1),
       F("s_block_group_nr", "u16", 1),
       F("s_feature_compat", "u32", 1),
       F("s_feature_incompat", "u32", 1),
       F("s_feature_ro_compat", "u32", 1),
       F("s_uuid", "u8", 16),
       F("s_volume_name", "char", 16),
       F("s_last_mounted", "char", 64),
       F("s_algorithm_usage_bitmap", "u32", 1),
       F("s_prealloc_blocks", "u8", 1),
       F("s_prealloc_dir_blocks", "u8", 1),
       F("s_padding1", "u16", 1),
       F("s_journal_uuid", "u8", 16),
       F("s_journal_inum", "u32", 1),
       F("s_journal_dev", "u32", 1),
       F("s_last_orphan", "u32", 1),
       F("s_hash_seed", "u32", 4),
       F("s_def_hash_version", "u8", 1),
       F("s_reserved_char_pad", "u8", 1),
       F("s_reserved_word_pad", "u16", 1),
       F("s_default_mount_opts", "u32", 1),
       F("s_first_meta_bg", "u32", 1),
       F("s_reserved", "u32", 190) >>

AlignUp(n, a) == ((n + a - 1) \div a) * a

FieldSize(i) == SizeOfPrim(Ext2SuperBlock[i].ty) * Ext2SuperBlock[i].n

FieldAlign(i) == SizeOfPrim(Ext2SuperBlock[i].ty)

\* repr(C): each field is placed at the first multiple of its alignment at
\* or after the end of the field before it.
FieldOffset[i \in 1..Len(Ext2SuperBlock)] ==
    IF i = 1 THEN 0
    ELSE AlignUp(FieldOffset[i - 1] + FieldSize(i - 1), FieldAlign(i))

FieldIndex(name) ==
    CHOOSE i \in 1..Len(Ext2SuperBlock) : Ext2SuperBlock[i].name = name

OffsetOf(name) == FieldOffset[FieldIndex(name)]

StructAlign ==
    CHOOSE a \in {FieldAlign(i) : i \in 1..Len(Ext2SuperBlock)} :
        \A i \in 1..Len(Ext2SuperBlock) : FieldAlign(i) <= a

\* std::mem::size_of::<Ext2SuperBlock>()
SizeOfSuperBlock ==
    AlignUp(FieldOffset[Len(Ext2SuperBlock)] + FieldSize(Len(Ext2SuperBlock)),
            StructAlign)

(* ------------------------------------------------------------------ *)
(* State                                                               *)
(* ------------------------------------------------------------------ *)

VARIABLES
    device,          \* Ext2Fs.device: its block size and the bytes on the medium
    fs,              \* Ext2Fs: superblock, block_size, num_block_groups
    overflow_checks, \* build profile: TRUE = overflow checks on (debug)
    result,          \* what the last initialize call gave its caller
    loc,             \* (index, offset, block_count, len) of the last device read
    obs,             \* what the accessors returned since the last initialize
    medium,          \* "changed" since the last initialize call (or never read),
                     \* "read" by one call since, or "reread" by two or more
    everOk           \* some initialize call on this context succeeded

vars == << device, fs, overflow_checks, result, loc, obs, medium, everOk >>

(* ------------------------------------------------------------------ *)
(* BlockDevice: the medium                                             *)
(* ------------------------------------------------------------------ *)

\* Byte offsets, within the on-disk superblock, of the fields the program
\* reads (ext2 on-disk format, as the image the test reads is laid out).
DiskFieldOffset ==
    [s_blocks_count |-> 4, s_log_block_size |-> 24,
     s_blocks_per_group |-> 32, s_magic |-> 56]

DiskFields == DOMAIN DiskFieldOffset

\* Byte values a medium may hold in each of these fields, least significant
\* byte first: 256, 65536, 65537 blocks; exponents 2, 0, -1, -64;
\* 32768, 0 blocks per group; magics 0xEF53, 0x53EF.
FieldBytes ==
    [s_blocks_count     |-> { <<0, 1, 0, 0>>, <<0, 0, 1, 0>>, <<1, 0, 1, 0>> },
     s_log_block_size   |-> { <<2, 0, 0, 0>>, <<0, 0, 0, 0>>,
                              <<255, 255, 255, 255>>, <<192, 255, 255, 255>> },
     s_blocks_per_group |-> { <<0, 128, 0, 0>>, <<0, 0, 0, 0>> },
     s_magic            |-> { <<83, 239>>, <<239, 83>> }]

Images == [s_blocks_count : FieldBytes.s_blocks_count,
           s_log_block_size : FieldBytes.s_log_block_size,
           s_blocks_per_group : FieldBytes.s_blocks_per_group,
           s_magic : FieldBytes.s_magic]

\* The image of the test: 256 blocks, exponent 2, 32768 blocks per group.
TestImage ==
    [s_blocks_count |-> <<0, 1, 0, 0>>, s_log_block_size |-> <<2, 0, 0, 0>>,
     s_blocks_per_group |-> <<0, 128, 0, 0>>, s_magic |-> <<83, 239>>]

\* Device block sizes of the main specification.
BlockSizes == {512, 1024, 4096}

\* The byte at absolute position pos of the medium.
MediumByte(dev, pos) ==
    LET rel == pos - 1024
        hit == {f \in DiskFields :
                   /\ rel >= DiskFieldOffset[f]
                   /\ rel < DiskFieldOffset[f] + Len(dev.image[f])}
    IN IF hit = {} THEN 0
       ELSE LET f == CHOOSE g \in hit : TRUE
            IN dev.image[f][rel - DiskFieldOffset[f] + 1]

\* read_blocks(index, num_blocks): exactly num_blocks * block_size bytes.
read_blocks_len(dev, num_blocks) == num_blocks * dev.block_size

\* Byte i of the buffer read_blocks(index, num_blocks) returned; a read past
\* the end of the buffer gives whatever the heap holds there (junk).
BufByte(dev, index, len, i, junk) ==
    IF i < len THEN MediumByte(dev, index * dev.block_size + i) ELSE junk

JunkBytes == {0, 255}

(* ------------------------------------------------------------------ *)
(* Superblock locator (read_superblock, first half)                    *)
(* ------------------------------------------------------------------ *)

\* DivCeil with a fault: the division rounds down.
DivCeilMut(a, b) == a \div b

\* num::Integer::div_ceil on unsigned integers, divisor > 0.
DivCeil(a, b) == (a \div b) + (IF a % b # 0 THEN 1 ELSE 0)

Index(block_size) == SUPERBLOCK_OFFSET \div block_size

\* Offset with a fault: the superblock is taken to start its block.
OffsetMut(block_size) == 0

Offset(block_size) == SUPERBLOCK_OFFSET % block_size

\* BlockCount with a fault: a single block is read whatever its size.
BlockCountMut(block_size) == 1

BlockCount(block_size) ==
    LET offset == Offset(block_size)
    IN IF SizeOfSuperBlock > (block_size - offset)
       THEN LET remaining_bytes == SizeOfSuperBlock - (block_size - offset)
            IN 1 + DivCeil(remaining_bytes, block_size)
       ELSE 1

Locate(dev) ==
    [index |-> Index(dev.block_size),
     offset |-> Offset(dev.block_size),
     block_count |-> BlockCount(dev.block_size),
     len |-> read_blocks_len(dev, BlockCount(dev.block_size))]

(* ------------------------------------------------------------------ *)
(* Superblock decoder (read_superblock, second half)                   *)
(* ------------------------------------------------------------------ *)

\* Little-endian host: the unsigned integer of width w stored at buffer
\* position base.
ReadUnsigned(dev, l, base, w, junk) ==
    LET b(k) == BufByte(dev, l.index, l.len, base + k, junk)
    IN IF w = 2 THEN b(0) + 256 * b(1)
       ELSE b(0) + 256 * b(1) + 65536 * b(2) + 16777216 * b(3)

\* Two's complement i32 stored at buffer position base.
ReadI32(dev, l, base, junk) ==
    LET b(k) == BufByte(dev, l.index, l.len, base + k, junk)
        top == IF b(3) >= 128 THEN b(3) - 256 ELSE b(3)
    IN b(0) + 256 * b(1) + 65536 * b(2) + 16777216 * top

\* transmute_copy of the bytes at superblock_data[offset..]: every field is
\* read at its offset in the in-memory record.
Decode(dev, l, junk) ==
    [s_blocks_count |->
         ReadUnsigned(dev, l, l.offset + OffsetOf("s_blocks_count"), 4, junk),
     s_log_block_size |->
         ReadI32(dev, l, l.offset + OffsetOf("s_log_block_size"), junk),
     s_blocks_per_group |->
         ReadUnsigned(dev, l, l.offset + OffsetOf("s_blocks_per_group"), 4, junk),
     s_magic |->
         ReadUnsigned(dev, l, l.offset + OffsetOf("s_magic"), 2, junk)]

\* Ext2Fs::read_superblock: Err(NoFilesystemFound) or Ok(superblock).
read_superblock(dev, junk) ==
    LET l == Locate(dev)
        superblock == Decode(dev, l, junk)
    IN [loc |-> l,
        err |-> superblock.s_magic # EXT2_MAGIC,
        superblock |-> superblock]

(* ------------------------------------------------------------------ *)
(* Geometry (initialize)                                               *)
(* ------------------------------------------------------------------ *)

RECURSIVE Pow2(_)
Pow2(n) == IF n = 0 THEN 1 ELSE 2 * Pow2(n - 1)

\* v << k on usize, 0 <= k < UsizeBits: the bits shifted past the top are
\* lost. (The low UsizeBits - k bits of v are the ones that stay.)
ShlUsize(v, k) ==
    LET keep == UsizeBits - k
        low == IF keep > 30 THEN v ELSE v % Pow2(keep)
    IN IF low = 0 THEN 0 ELSE low * Pow2(k)

\* v >> k on usize, 0 <= k < UsizeBits, for v < 2^31.
ShrUsize(v, k) == IF k > 30 THEN 0 ELSE v \div Pow2(k)

\* EffectiveBlockSize with a fault: the shift is applied to the block size
\* the context holds instead of DEFAULT_BLOCK_SIZE.
EffectiveBlockSizeMut(log_block_size, checks) ==
    IF log_block_size < 0
    THEN LET neg == IF log_block_size = I32Min THEN I32Min ELSE -log_block_size
         IN IF checks /\ (neg < 0 \/ neg >= UsizeBits)
            THEN [panic |-> TRUE, value |-> 0]
            ELSE [panic |-> FALSE,
                  value |-> ShrUsize(fs.block_size, neg % UsizeBits)]
    ELSE IF checks /\ log_block_size >= UsizeBits
         THEN [panic |-> TRUE, value |-> 0]
         ELSE [panic |-> FALSE,
               value |-> ShlUsize(fs.block_size, log_block_size % UsizeBits)]

\* The block size initialize computes from the signed exponent. With
\* overflow checks (debug profile) a negation of i32::MIN and a shift by a
\* negative amount or by UsizeBits or more panic; without them (release
\* profile) the negation wraps and the shift amount is taken modulo
\* UsizeBits.
EffectiveBlockSize(log_block_size, checks) ==
    IF log_block_size < 0
    THEN LET neg == IF log_block_size = I32Min THEN I32Min ELSE -log_block_size
         IN IF checks /\ (neg < 0 \/ neg >= UsizeBits)
            THEN [panic |-> TRUE, value |-> 0]
            ELSE [panic |-> FALSE,
                  value |-> ShrUsize(DEFAULT_BLOCK_SIZE, neg % UsizeBits)]
    ELSE IF checks /\ log_block_size >= UsizeBits
         THEN [panic |-> TRUE, value |-> 0]
         ELSE [panic |-> FALSE,
               value |-> ShlUsize(DEFAULT_BLOCK_SIZE, log_block_size % UsizeBits)]

\* NumBlockGroups with a fault: one group is added even when the division
\* is exact.
NumBlockGroupsMut(superblock) ==
    IF superblock.s_blocks_per_group = 0
    THEN [panic |-> TRUE, value |-> 0]
    ELSE [panic |-> FALSE,
          value |-> (superblock.s_blocks_count
                        \div superblock.s_blocks_per_group) + 1]

\* s_blocks_count.div_ceil(&s_blocks_per_group): the division panics on a
\* zero divisor in every build profile.
NumBlockGroups(superblock) ==
    IF superblock.s_blocks_per_group = 0
    THEN [panic |-> TRUE, value |-> 0]
    ELSE [panic |-> FALSE,
          value |-> DivCeil(superblock.s_blocks_count,
                            superblock.s_blocks_per_group)]

(* ------------------------------------------------------------------ *)
(* Ext2Fs                                                              *)
(* ------------------------------------------------------------------ *)

\* Ext2Fs::new
new ==
    [superblock |-> None, block_size |-> 1024, num_block_groups |-> 0]

\* Accessors
block_size == fs.block_size

num_block_groups == fs.num_block_groups

num_blocks ==
    IF IsSome(fs.superblock) THEN Unwrap(fs.superblock).s_blocks_count ELSE 0

Accessors ==
    [block_size |-> block_size,
     num_block_groups |-> num_block_groups,
     num_blocks |-> num_blocks]

\* initialize, statement by statement. A panic unwinds from the statement
\* that raised it, and the fields assigned before it keep their new values.

\* lines 173-178: the number of block groups, then Ok(()).
initialize_groups(self, ng) ==
    IF ng.panic
    THEN [fs |-> self, result |-> "panic"]
    ELSE [fs |-> [self EXCEPT !.num_block_groups = ng.value], result |-> "Ok"]

\* lines 165-171: the block size.
initialize_block_size(self, superblock, bs) ==
    IF bs.panic
    THEN [fs |-> self, result |-> "panic"]
    ELSE initialize_groups([self EXCEPT !.block_size = bs.value],
                           NumBlockGroups(superblock))

\* lines 162-163: the superblock is stored unless read_superblock failed.
initialize_superblock(self, rs, checks) ==
    IF rs.err
    THEN [fs |-> self, result |-> "NoFilesystemFound"]
    ELSE initialize_block_size(
             [self EXCEPT !.superblock = Some(rs.superblock)],
             rs.superblock,
             EffectiveBlockSize(rs.superblock.s_log_block_size, checks))

initialize(self, dev, checks, junk) ==
    initialize_superblock(self, read_superblock(dev, junk), checks)

TypeOK ==
    /\ device.block_size \in Nat \ {0}
    /\ device.image \in Images
    /\ overflow_checks \in BOOLEAN
    /\ result \in {"none", "Ok", "NoFilesystemFound", "panic"}
    /\ medium \in {"changed", "read", "reread"}
    /\ everOk \in BOOLEAN

InitContext ==
    /\ fs = new
    /\ overflow_checks \in BOOLEAN
    /\ result = "none"
    /\ loc = None
    /\ obs = None
    /\ medium = "changed"
    /\ everOk = FALSE

Init ==
    /\ device \in [block_size : BlockSizes, image : Images]
    /\ InitContext

\* The caller gets the result; the context is what initialize left.
Return(out) ==
    /\ fs' = out.fs
    /\ result' = out.result
    /\ everOk' = (everOk \/ out.result = "Ok")

\* ext2fs.initialize()
Initialize ==
    /\ \E junk \in JunkBytes :
          Return(initialize(fs, device, overflow_checks, junk))
    /\ loc' = Some(Locate(device))
    /\ obs' = None
    /\ medium' = (IF medium = "changed" THEN "read" ELSE "reread")
    /\ UNCHANGED << device, overflow_checks >>

\* ext2fs.block_size(), ext2fs.num_block_groups(), ext2fs.num_blocks()
Query ==
    /\ obs' = Some(Accessors)
    /\ UNCHANGED << device, fs, overflow_checks, result, loc, medium, everOk >>

\* The bytes of one superblock field change on the medium.
MediumChange ==
    /\ \E f \in DiskFields : \E b \in FieldBytes[f] :
          /\ b # device.image[f]
          /\ device' = [device EXCEPT !.image[f] = b]
    /\ medium' = "changed"
    /\ UNCHANGED << fs, overflow_checks, result, loc, obs, everOk >>

Next == Initialize \/ Query \/ MediumChange

Spec == Init /\ [][Next]_vars

\* The locator and decoder over every device block size up to MaxBlockSize,
\* on the image of the test.
InitLoc ==
    /\ device \in [block_size : 1..MaxBlockSize, image : {TestImage}]
    /\ InitContext

NextLoc == Initialize

SpecLoc == InitLoc /\ [][NextLoc]_vars

(* ------------------------------------------------------------------ *)
(* Properties                                                          *)
(* ------------------------------------------------------------------ *)

\* The 16-bit little-endian value of the two bytes the medium holds at the
\* magic field of the superblock (volume offset 1024 + 56).
DiskMagic == device.image.s_magic[1] + 256 * device.image.s_magic[2]

\* The last initialize call read the medium as it is now.
Called == result # "none" /\ medium # "changed"

\* C1: initialize returns Err(NoFilesystemFound) exactly when the magic on
\* the medium is not 0xEF53; with the magic 0xEF53 the call does not give
\* that error and the stored superblock has s_magic = 0xEF53.
C1_MagicCheck ==
    Called =>
        /\ (result = "NoFilesystemFound") <=> (DiskMagic # 61267)
        /\ DiskMagic = 61267 =>
               /\ IsSome(fs.superblock)
               /\ Unwrap(fs.superblock).s_magic = 61267

\* A call over a medium with a wrong magic failed on a context that an
\* earlier call had initialized from a valid superblock.
C1_Witness ==
    /\ Called
    /\ result = "NoFilesystemFound"
    /\ device.image.s_magic = <<239, 83>>
    /\ everOk
    /\ IsSome(fs.superblock)

\* The device block size divides 1024 or is a multiple of 1024.
Divides1024(b) == 1024 % b = 0 \/ b % 1024 = 0

\* C2: for a device block size b that divides 1024 or is a multiple of it,
\* index * b + offset = 1024 and the bytes [1024, 2048) of the volume lie
\* within the block_count blocks read from block index on.
C2_LocatorCovers ==
    (IsSome(loc) /\ Divides1024(device.block_size)) =>
        LET l == Unwrap(loc)
            b == device.block_size
        IN /\ l.index * b + l.offset = 1024
           /\ l.offset < b
           /\ l.block_count >= 1
           /\ l.index * b + l.offset + 1024 <= (l.index + l.block_count) * b

\* The superblock was read from a device of 512-byte blocks as three blocks
\* from block 2 on.
C2_Witness ==
    /\ IsSome(loc)
    /\ device.block_size = 512
    /\ Unwrap(loc).index = 2
    /\ Unwrap(loc).offset = 0
    /\ Unwrap(loc).block_count = 3

RECURSIVE ShrMath(_, _)
\* v >> k on the natural numbers.
ShrMath(v, k) == IF k = 0 \/ v = 0 THEN v ELSE ShrMath(v \div 2, k - 1)

RECURSIVE IsShlOf(_, _, _)
\* r = v << k on the natural numbers (no bit is lost).
IsShlOf(r, v, k) ==
    IF k = 0 THEN r = v ELSE r % 2 = 0 /\ r # 0 /\ IsShlOf(r \div 2, v, k - 1)

\* C3: after a successful initialize, block_size() is 1024 << e for a stored
\* exponent e >= 0 and 1024 >> |e| for e < 0, whatever exponent is stored.
C3_BlockSizeEveryExponent ==
    result = "Ok" =>
        LET e == Unwrap(fs.superblock).s_log_block_size
        IN IF e >= 0 THEN IsShlOf(block_size, 1024, e)
           ELSE block_size = ShrMath(1024, -e)

\* C4: after a successful initialize the stored s_blocks_per_group is
\* positive, num_block_groups() is the least n with
\* n * s_blocks_per_group >= s_blocks_count, and num_blocks() is
\* s_blocks_count, which is the count the medium holds when it has not
\* changed since.
C4_GroupCountIsCeiling ==
    result = "Ok" =>
        LET c == Unwrap(fs.superblock).s_blocks_count
            d == Unwrap(fs.superblock).s_blocks_per_group
            n == num_block_groups
            onDisk == device.image.s_blocks_count
        IN /\ d > 0
           /\ n * d >= c
           /\ (n = 0 \/ (n - 1) * d < c)
           /\ num_blocks = c
           /\ medium # "changed" =>
                  c = onDisk[1] + 256 * onDisk[2] + 65536 * onDisk[3]
                         + 16777216 * onDisk[4]

\* 65537 blocks in groups of 32768 gave 3 groups, and 65536 blocks are in
\* view for the exact case.
C4_Witness ==
    /\ result = "Ok"
    /\ medium # "changed"
    /\ num_blocks = 65537
    /\ Unwrap(fs.superblock).s_blocks_per_group = 32768
    /\ num_block_groups = 3

\* The values of the Error enum.
ErrorValues == {"NoFilesystemFound"}

\* C5: a call over a medium with the magic 0xEF53 and s_blocks_per_group = 0
\* returns an error value to its caller.
C5_ZeroDivisorIsError ==
    (Called /\ DiskMagic = 61267
            /\ device.image.s_blocks_per_group = <<0, 0, 0, 0>>) =>
        result \in ErrorValues

\* C6: a context whose initialize calls all failed is as Ext2Fs::new left
\* it: no stored superblock, and the accessors give 1024, 0 and 0.
C6_AllOrNothing ==
    (result \in {"NoFilesystemFound", "panic"} /\ ~everOk) =>
        /\ fs.superblock = None
        /\ block_size = 1024
        /\ num_block_groups = 0
        /\ num_blocks = 0

\* C7: on a context on which no initialize call has succeeded, the accessors
\* return 1024, 0 and 0.
C7_SentinelBeforeSuccess ==
    (~everOk /\ IsSome(obs)) =>
        Unwrap(obs) = [block_size |-> 1024, num_block_groups |-> 0,
                       num_blocks |-> 0]

\* C8: an initialize call over a medium that has not changed since the call
\* before it gives the result of that call and leaves the context as that
\* call left it.
C8_Idempotent ==
    [][(medium # "changed" /\ medium' = "reread" /\ obs' = None)
           => (result' = result /\ fs' = fs)]_vars

\* A second call over an unchanged medium succeeded.
C8_Witness ==
    /\ medium = "reread"
    /\ result = "Ok"
    /\ block_size = 4096
    /\ num_block_groups = 1

\* C9: the record the locator and the decoder use is 1024 bytes long.
C9_RecordIs1024Bytes ==
    IsSome(loc) => SizeOfSuperBlock = 1024

\* The least n with n * b >= x.
CeilOf(x, b) == CHOOSE n \in 0..x : n * b >= x /\ (n = 0 \/ (n - 1) * b < x)

\* C10: the device read returns block_count * block_size bytes, block_count
\* is 1 when the record fits behind offset in one block and otherwise
\* 1 + ceil of the rest over the block size, and the record the decoder
\* copies from offset on ends within the buffer.
C10_ReadInBounds ==
    IsSome(loc) =>
        LET l == Unwrap(loc)
            b == device.block_size
            avail == b - l.offset
        IN /\ l.len = l.block_count * b
           /\ l.block_count =
                  (IF SizeOfSuperBlock <= avail THEN 1
                   ELSE 1 + CeilOf(SizeOfSuperBlock - avail, b))
           /\ l.offset + SizeOfSuperBlock <= l.len

\* A device of 1000-byte blocks: the record starts 24 bytes into block 1 and
\* runs into block 2.
C10_Witness ==
    /\ IsSome(loc)
    /\ device.block_size = 1000
    /\ Unwrap(loc).index = 1
    /\ Unwrap(loc).offset = 24
    /\ Unwrap(loc).block_count = 2

====
